---- MODULE Spec2Model ----
(***************************************************************************)
(* Model of python/examples/joystick/virtual_joystick.py: the mouse-driven *)
(* virtual gamepad (two sticks, four buttons) and the bridge loop that     *)
(* forwards its state to the robot's data channel.                         *)
(*                                                                         *)
(* Numbers.  Pointer coordinates are integers.  A stick value is the real  *)
(* number num / sqrt(rad2), kept as the record [num, rad2] with rad2 > 0:  *)
(* dx / radius is [dx, radius^2] and cos(atan2(dy, dx)) is                 *)
(* [dx, dx^2 + dy^2].  Arithmetic on values is exact; binary64 rounding is *)
(* not modelled.                                                           *)
(***************************************************************************)
EXTENDS Integers, Sequences, FiniteSets, TLC

\* JOY_SENSE = 0.2 = JOY_SENSE_NUM / JOY_SENSE_DEN
JOY_SENSE_NUM == 2
JOY_SENSE_DEN == 10
JOYSTICK_RADIUS == 80
BUTTON_RADIUS == 30

\* Longest batch pygame's event queue holds between two polls.
MaxQueue == 2

(***************************************************************************)
(* Values                                                                  *)
(***************************************************************************)
Zero == [num |-> 0, rad2 |-> 1]

\* n / d for integers n and d > 0
Div(n, d) == [num |-> n, rad2 |-> d * d]

\* math.cos(math.atan2(dy, dx)) = dx / sqrt(dx^2 + dy^2); math.sin likewise
CosAtan2(dy, dx) == [num |-> dx, rad2 |-> dx * dx + dy * dy]
SinAtan2(dy, dx) == [num |-> dy, rad2 |-> dx * dx + dy * dy]

\* abs(v) > 0.0
NonZero(v) == v.num # 0

\* math.sqrt(dx**2 + dy**2) <= radius
WithinRadius(dx, dy, radius) == dx * dx + dy * dy <= radius * radius

(***************************************************************************)
(* Events                                                                  *)
(***************************************************************************)
NoPos == <<0, 0>>

MouseDown(b, p) == [type |-> "MOUSEBUTTONDOWN", button |-> b, pos |-> p]
MouseUp(b, p) == [type |-> "MOUSEBUTTONUP", button |-> b, pos |-> p]
MouseMotion(p) == [type |-> "MOUSEMOTION", button |-> 0, pos |-> p]
QuitEvent == [type |-> "QUIT", button |-> 0, pos |-> NoPos]

(***************************************************************************)
(* VirtualJoystick                                                         *)
(***************************************************************************)
NoDrag == <<>>

VirtualJoystick(x, y, radius) ==
    [x |-> x, y |-> y, radius |-> radius,
     value_x |-> Zero, value_y |-> Zero,
     is_dragging |-> FALSE, drag_start |-> NoDrag]

\* JoystickHandleEvent without the clamp to the circle: every motion divides
\* by the radius.
JoystickHandleEvent_NoClamp(self, event) ==
    LET dx == event.pos[1] - self.x
        dy == event.pos[2] - self.y
    IN  IF event.type = "MOUSEBUTTONDOWN"
        THEN IF event.button = 1 /\ WithinRadius(dx, dy, self.radius)
             THEN [self EXCEPT !.is_dragging = TRUE, !.drag_start = event.pos]
             ELSE self
        ELSE IF event.type = "MOUSEBUTTONUP"
        THEN IF event.button = 1
             THEN [self EXCEPT !.is_dragging = FALSE,
                               !.value_x = Zero, !.value_y = Zero]
             ELSE self
        ELSE IF event.type = "MOUSEMOTION"
        THEN IF self.is_dragging
             THEN [self EXCEPT !.value_x = Div(dx, self.radius),
                               !.value_y = Div(dy, self.radius)]
             ELSE self
        ELSE self

\* JoystickHandleEvent measuring the motion from where the drag started
\* instead of from the centre.
JoystickHandleEvent_FromDragStart(self, event) ==
    LET ox == IF self.is_dragging THEN self.drag_start[1] ELSE self.x
        oy == IF self.is_dragging THEN self.drag_start[2] ELSE self.y
        dx == event.pos[1] - ox
        dy == event.pos[2] - oy
    IN  IF event.type = "MOUSEBUTTONDOWN"
        THEN IF event.button = 1
                /\ WithinRadius(event.pos[1] - self.x, event.pos[2] - self.y,
                                self.radius)
             THEN [self EXCEPT !.is_dragging = TRUE, !.drag_start = event.pos]
             ELSE self
        ELSE IF event.type = "MOUSEBUTTONUP"
        THEN IF event.button = 1
             THEN [self EXCEPT !.is_dragging = FALSE,
                               !.value_x = Zero, !.value_y = Zero]
             ELSE self
        ELSE IF event.type = "MOUSEMOTION"
        THEN IF self.is_dragging
             THEN IF WithinRadius(dx, dy, self.radius)
                  THEN [self EXCEPT !.value_x = Div(dx, self.radius),
                                    !.value_y = Div(dy, self.radius)]
                  ELSE [self EXCEPT !.value_x = CosAtan2(dy, dx),
                                    !.value_y = SinAtan2(dy, dx)]
             ELSE self
        ELSE self

\* JoystickHandleEvent whose release ends the drag and leaves the value.
JoystickHandleEvent_NoReset(self, event) ==
    LET dx == event.pos[1] - self.x
        dy == event.pos[2] - self.y
    IN  IF event.type = "MOUSEBUTTONDOWN"
        THEN IF event.button = 1 /\ WithinRadius(dx, dy, self.radius)
             THEN [self EXCEPT !.is_dragging = TRUE, !.drag_start = event.pos]
             ELSE self
        ELSE IF event.type = "MOUSEBUTTONUP"
        THEN IF event.button = 1
             THEN [self EXCEPT !.is_dragging = FALSE]
             ELSE self
        ELSE IF event.type = "MOUSEMOTION"
        THEN IF self.is_dragging
             THEN IF WithinRadius(dx, dy, self.radius)
                  THEN [self EXCEPT !.value_x = Div(dx, self.radius),
                                    !.value_y = Div(dy, self.radius)]
                  ELSE [self EXCEPT !.value_x = CosAtan2(dy, dx),
                                    !.value_y = SinAtan2(dy, dx)]
             ELSE self
        ELSE self

\* JoystickHandleEvent whose drag starts on any left press, without the
\* distance test.
JoystickHandleEvent_AnyPress(self, event) ==
    LET dx == event.pos[1] - self.x
        dy == event.pos[2] - self.y
    IN  IF event.type = "MOUSEBUTTONDOWN"
        THEN IF event.button = 1
             THEN [self EXCEPT !.is_dragging = TRUE, !.drag_start = event.pos]
             ELSE self
        ELSE IF event.type = "MOUSEBUTTONUP"
        THEN IF event.button = 1
             THEN [self EXCEPT !.is_dragging = FALSE,
                               !.value_x = Zero, !.value_y = Zero]
             ELSE self
        ELSE IF event.type = "MOUSEMOTION"
        THEN IF self.is_dragging
             THEN IF WithinRadius(dx, dy, self.radius)
                  THEN [self EXCEPT !.value_x = Div(dx, self.radius),
                                    !.value_y = Div(dy, self.radius)]
                  ELSE [self EXCEPT !.value_x = CosAtan2(dy, dx),
                                    !.value_y = SinAtan2(dy, dx)]
             ELSE self
        ELSE self

JoystickHandleEvent(self, event) ==
    LET dx == event.pos[1] - self.x
        dy == event.pos[2] - self.y
    IN  IF event.type = "MOUSEBUTTONDOWN"
        THEN IF event.button = 1 /\ WithinRadius(dx, dy, self.radius)
             THEN [self EXCEPT !.is_dragging = TRUE, !.drag_start = event.pos]
             ELSE self
        ELSE IF event.type = "MOUSEBUTTONUP"
        THEN IF event.button = 1
             THEN [self EXCEPT !.is_dragging = FALSE,
                               !.value_x = Zero, !.value_y = Zero]
             ELSE self
        ELSE IF event.type = "MOUSEMOTION"
        THEN IF self.is_dragging
             THEN IF WithinRadius(dx, dy, self.radius)
                  THEN [self EXCEPT !.value_x = Div(dx, self.radius),
                                    !.value_y = Div(dy, self.radius)]
                  ELSE [self EXCEPT !.value_x = CosAtan2(dy, dx),
                                    !.value_y = SinAtan2(dy, dx)]
             ELSE self
        ELSE self

(***************************************************************************)
(* VirtualButton                                                           *)
(***************************************************************************)
VirtualButton(x, y, radius) ==
    [x |-> x, y |-> y, radius |-> radius, is_pressed |-> FALSE]

\* ButtonHandleEvent whose release clears the button only when the pointer is
\* inside it.
ButtonHandleEvent_ReleaseInside(self, event) ==
    LET dx == event.pos[1] - self.x
        dy == event.pos[2] - self.y
    IN  IF event.type = "MOUSEBUTTONDOWN"
        THEN IF event.button = 1 /\ WithinRadius(dx, dy, self.radius)
             THEN [self EXCEPT !.is_pressed = TRUE]
             ELSE self
        ELSE IF event.type = "MOUSEBUTTONUP"
        THEN IF event.button = 1 /\ WithinRadius(dx, dy, self.radius)
             THEN [self EXCEPT !.is_pressed = FALSE]
             ELSE self
        ELSE self

\* ButtonHandleEvent without the test of the mouse button.
ButtonHandleEvent_AnyButton(self, event) ==
    LET dx == event.pos[1] - self.x
        dy == event.pos[2] - self.y
    IN  IF event.type = "MOUSEBUTTONDOWN"
        THEN IF WithinRadius(dx, dy, self.radius)
             THEN [self EXCEPT !.is_pressed = TRUE]
             ELSE self
        ELSE IF event.type = "MOUSEBUTTONUP"
        THEN [self EXCEPT !.is_pressed = FALSE]
        ELSE self

ButtonHandleEvent(self, event) ==
    LET dx == event.pos[1] - self.x
        dy == event.pos[2] - self.y
    IN  IF event.type = "MOUSEBUTTONDOWN"
        THEN IF event.button = 1 /\ WithinRadius(dx, dy, self.radius)
             THEN [self EXCEPT !.is_pressed = TRUE]
             ELSE self
        ELSE IF event.type = "MOUSEBUTTONUP"
        THEN IF event.button = 1
             THEN [self EXCEPT !.is_pressed = FALSE]
             ELSE self
        ELSE self

(***************************************************************************)
(* VirtualGamepad                                                          *)
(***************************************************************************)
VirtualGamepad ==
    [left_stick  |-> VirtualJoystick(200, 300, JOYSTICK_RADIUS),
     right_stick |-> VirtualJoystick(600, 300, JOYSTICK_RADIUS),
     btn_a |-> VirtualButton(550, 150, BUTTON_RADIUS),
     btn_b |-> VirtualButton(600, 150, BUTTON_RADIUS),
     btn_x |-> VirtualButton(450, 150, BUTTON_RADIUS),
     btn_y |-> VirtualButton(500, 150, BUTTON_RADIUS)]

StickNames == {"left_stick", "right_stick"}
ButtonNames == {"btn_a", "btn_b", "btn_x", "btn_y"}

\* The body of the for loop of handle_events for an event other than QUIT.
DispatchEvent(pad, event) ==
    [left_stick  |-> JoystickHandleEvent(pad.left_stick, event),
     right_stick |-> JoystickHandleEvent(pad.right_stick, event),
     btn_a |-> ButtonHandleEvent(pad.btn_a, event),
     btn_b |-> ButtonHandleEvent(pad.btn_b, event),
     btn_x |-> ButtonHandleEvent(pad.btn_x, event),
     btn_y |-> ButtonHandleEvent(pad.btn_y, event)]

\* handle_events handling one event per call, as with pygame.event.poll().
handle_events_FirstOnly(pad, batch) ==
    IF batch = <<>>
    THEN [pad |-> pad, running |-> TRUE]
    ELSE IF Head(batch).type = "QUIT"
    THEN [pad |-> pad, running |-> FALSE]
    ELSE [pad |-> DispatchEvent(pad, Head(batch)), running |-> TRUE]

\* handle_events that notes QUIT in a flag and goes on with the batch.
RECURSIVE DispatchAllButQuit(_, _)
DispatchAllButQuit(pad, batch) ==
    IF batch = <<>>
    THEN pad
    ELSE IF Head(batch).type = "QUIT"
    THEN DispatchAllButQuit(pad, Tail(batch))
    ELSE DispatchAllButQuit(DispatchEvent(pad, Head(batch)), Tail(batch))

handle_events_QuitFlag(pad, batch) ==
    [pad |-> DispatchAllButQuit(pad, batch),
     running |-> \A i \in 1..Len(batch) : batch[i].type # "QUIT"]

\* handle_events over the batch returned by pygame.event.get(): the pad after
\* the loop and the value returned (FALSE at the first QUIT, which ends the
\* loop with the rest of the batch dropped).
RECURSIVE handle_events(_, _)
handle_events(pad, batch) ==
    IF batch = <<>>
    THEN [pad |-> pad, running |-> TRUE]
    ELSE IF Head(batch).type = "QUIT"
    THEN [pad |-> pad, running |-> FALSE]
    ELSE handle_events(DispatchEvent(pad, Head(batch)), Tail(batch))

\* get_joystick_values whose "b" reads the X button.
get_joystick_values_BReadsX(pad) ==
    [Axis0 |-> pad.left_stick.value_x,
     Axis1 |-> pad.left_stick.value_y,
     Axis2 |-> pad.right_stick.value_x,
     Axis3 |-> pad.right_stick.value_y,
     a |-> IF pad.btn_a.is_pressed THEN 1 ELSE 0,
     b |-> IF pad.btn_x.is_pressed THEN 1 ELSE 0,
     x |-> IF pad.btn_x.is_pressed THEN 1 ELSE 0,
     y |-> IF pad.btn_y.is_pressed THEN 1 ELSE 0]

get_joystick_values(pad) ==
    [Axis0 |-> pad.left_stick.value_x,
     Axis1 |-> pad.left_stick.value_y,
     Axis2 |-> pad.right_stick.value_x,
     Axis3 |-> pad.right_stick.value_y,
     a |-> IF pad.btn_a.is_pressed THEN 1 ELSE 0,
     b |-> IF pad.btn_b.is_pressed THEN 1 ELSE 0,
     x |-> IF pad.btn_x.is_pressed THEN 1 ELSE 0,
     y |-> IF pad.btn_y.is_pressed THEN 1 ELSE 0]

(***************************************************************************)
(* Command encoder                                                         *)
(***************************************************************************)
MOVE_API_ID == 1008

\* A payload is the record of what its builder put into it; the identity id
\* drawn by Go2Connection.generate_id() is left out.
NoCmd == [builder |-> "none"]

\* x * JOY_SENSE
TimesJoySense(v) ==
    [num |-> JOY_SENSE_NUM * v.num,
     rad2 |-> JOY_SENSE_DEN * JOY_SENSE_DEN * v.rad2]

\* ROBOT_CMD is the connection library's table; a command is named by its key.
gen_command(cmd) ==
    [builder |-> "gen_command", api_id |-> cmd, parameter |-> cmd]

gen_mov_command(x, y, z) ==
    [builder |-> "gen_mov_command", api_id |-> MOVE_API_ID,
     parameter |-> [x |-> TimesJoySense(x), y |-> TimesJoySense(y), z |-> z]]

\* joy_move_x read from the left stick's x axis.
joy_move_x_Axis0(values) == values.Axis0

joy_move_x(values) == values.Axis1
joy_move_y(values) == values.Axis0
joy_move_z(values) == values.Axis2

\* the movement condition looking at the right stick's y axis as well
ShouldMove_FourAxes(values) ==
    \/ NonZero(values.Axis0)
    \/ NonZero(values.Axis1)
    \/ NonZero(values.Axis2)
    \/ NonZero(values.Axis3)

\* the condition of the movement branch of the loop
ShouldMove(values) ==
    \/ NonZero(joy_move_x(values))
    \/ NonZero(joy_move_y(values))
    \/ NonZero(joy_move_z(values))

(***************************************************************************)
(* Inputs                                                                  *)
(***************************************************************************)
\* pointer positions, inside and outside the 800 x 600 window
PA == <<550, 150>>      \* centre of A
PAB == <<580, 150>>     \* on the rim of A, inside B
PB == <<610, 150>>      \* inside B only
PX == <<450, 150>>      \* centre of X
PXY == <<475, 150>>     \* inside X and Y
PL == <<230, 340>>      \* inside the left stick
PLrim == <<248, 364>>   \* on the rim of the left stick
PLout == <<249, 364>>   \* just outside the left stick
PR == <<600, 340>>      \* inside the right stick, straight below its centre
PRrim == <<648, 236>>   \* on the rim of the right stick
PFar == <<1000, 900>>   \* outside the window
PNeg == <<-100, -100>>  \* outside the window

PadPositions ==
    {PA, PAB, PB, PX, PXY, PL, PLrim, PLout, PR, PRrim, PFar, PNeg}

PadEvents ==
    {MouseDown(b, p) : b \in {1, 3}, p \in PadPositions}
        \cup {MouseUp(b, p) : b \in {1, 3}, p \in {PA, PFar}}
        \cup {MouseMotion(p) : p \in PadPositions}

BridgeEvents ==
    {MouseDown(1, p) : p \in {PAB, PXY, PL, PR}}
        \cup {MouseMotion(p) : p \in {PL, PR}}
        \cup {MouseUp(1, PA), QuitEvent}

(***************************************************************************)
(* State                                                                   *)
(***************************************************************************)
VARIABLES
    virtual_pad,      \* the VirtualGamepad: its sticks and buttons
    event_queue,      \* pygame's event queue: posted, not yet polled
    pc,               \* position of main / start_virtual_joy_bridge
    joystick_values,  \* the dictionary read in this tick
    robot_cmd,        \* the payload last built in this tick
    sent,             \* payloads handed to data_channel.send in this tick
    exception,        \* the exception propagating out of the bridge, if any
    calls,            \* calls made by main's finally block, in order
    event,            \* the loop variable of handle_events' for loop
    hist              \* history of the handled events, per button

vars ==
    <<virtual_pad, event_queue, pc, joystick_values, robot_cmd, sent,
      exception, calls, event, hist>>

bridge_vars ==
    <<event_queue, pc, joystick_values, robot_cmd, sent, exception, calls>>

NoEvent == [type |-> "none", button |-> 0, pos |-> NoPos]

NoValues == [Axis0 |-> Zero, Axis1 |-> Zero, Axis2 |-> Zero, Axis3 |-> Zero,
             a |-> 0, b |-> 0, x |-> 0, y |-> 0]

(***************************************************************************)
(* History: what the handled events were, told without the widgets.        *)
(*   held[b]     a left press inside b was handled since the last left     *)
(*               release                                                   *)
(*   pending[b]  a left press inside b was handled and b's command has not *)
(*               been handed to send since                                 *)
(*   left_down   the last left-button event handled was a press            *)
(***************************************************************************)
InCircle(p, cx, cy, r) ==
    (p[1] - cx) * (p[1] - cx) + (p[2] - cy) * (p[2] - cy) <= r * r

InButton(b, p) ==
    InCircle(p, VirtualGamepad[b].x, VirtualGamepad[b].y, BUTTON_RADIUS)

NoneOf == [b \in ButtonNames |-> FALSE]

HistInit == [held |-> NoneOf, pending |-> NoneOf, left_down |-> FALSE]

HistEvent(h, e) ==
    IF e.type = "MOUSEBUTTONDOWN" /\ e.button = 1
    THEN [h EXCEPT
            !.held = [b \in ButtonNames |-> h.held[b] \/ InButton(b, e.pos)],
            !.pending =
                [b \in ButtonNames |-> h.pending[b] \/ InButton(b, e.pos)],
            !.left_down = TRUE]
    ELSE IF e.type = "MOUSEBUTTONUP" /\ e.button = 1
    THEN [held |-> NoneOf, pending |-> NoneOf, left_down |-> FALSE]
    ELSE h

RECURSIVE HistBatch(_, _)
HistBatch(h, batch) ==
    IF batch = <<>> \/ Head(batch).type = "QUIT"
    THEN h
    ELSE HistBatch(HistEvent(h, Head(batch)), Tail(batch))

\* the buttons whose pending press meets a left release among the events of
\* batch that are handled
RECURSIVE Lost(_, _)
Lost(h, batch) ==
    IF batch = <<>> \/ Head(batch).type = "QUIT"
    THEN {}
    ELSE (IF Head(batch).type = "MOUSEBUTTONUP" /\ Head(batch).button = 1
          THEN {b \in ButtonNames : h.pending[b]}
          ELSE {})
         \cup Lost(HistEvent(h, Head(batch)), Tail(batch))

HistSent(h, b) == [h EXCEPT !.pending[b] = FALSE]

(***************************************************************************)
(* main and start_virtual_joy_bridge                                       *)
(***************************************************************************)
Init ==
    /\ virtual_pad = VirtualGamepad
    /\ event_queue = <<>>
    /\ pc = "connect_robot"
    /\ joystick_values = NoValues
    /\ robot_cmd = NoCmd
    /\ sent = <<>>
    /\ exception = "none"
    /\ calls = <<>>
    /\ event = NoEvent
    /\ hist = HistInit

\* The user moves or clicks the mouse, or closes the window: pygame queues the
\* event until the next poll.  Once the loop has ended there is no next poll,
\* and what is posted from then on is never looked at.
PostEvent ==
    /\ pc \notin {"finally_quit", "finally_close", "done"}
    /\ Len(event_queue) < MaxQueue
    /\ \E e \in BridgeEvents : event_queue' = Append(event_queue, e)
    /\ UNCHANGED <<virtual_pad, pc, joystick_values, robot_cmd, sent,
                   exception, calls, event, hist>>

\* await robot_conn.connect_robot() returns
ConnectOk ==
    /\ pc = "connect_robot"
    /\ pc' = "handle_events"
    /\ UNCHANGED <<virtual_pad, event_queue, joystick_values, robot_cmd, sent,
                   exception, calls, event, hist>>

\* connect_robot() raising, the exception swallowed and the loop entered.
ConnectRaises_Swallowed ==
    /\ pc = "connect_robot"
    /\ pc' = "handle_events"
    /\ exception' = "connect_robot"
    /\ UNCHANGED <<virtual_pad, event_queue, joystick_values, robot_cmd, sent,
                   calls, event, hist>>

\* await robot_conn.connect_robot() raises
ConnectRaises ==
    /\ pc = "connect_robot"
    /\ pc' = "finally_quit"
    /\ exception' = "connect_robot"
    /\ UNCHANGED <<virtual_pad, event_queue, joystick_values, robot_cmd, sent,
                   calls, event, hist>>

\* if not virtual_pad.handle_events(): break.  A new tick starts: its log of
\* sends is empty, and the locals of the loop body hold nothing of the tick
\* yet (each is assigned in the tick before it is read).  The loop variable
\* event is local to the call.
HandleEvents ==
    /\ pc = "handle_events"
    /\ LET r == handle_events(virtual_pad, event_queue)
       IN  /\ virtual_pad' = r.pad
           /\ pc' = IF r.running THEN "get_joystick_values" ELSE "finally_quit"
    /\ hist' = HistBatch(hist, event_queue)
    /\ event_queue' = <<>>
    /\ sent' = <<>>
    /\ joystick_values' = NoValues
    /\ robot_cmd' = NoCmd
    /\ UNCHANGED <<exception, calls, event>>

\* virtual_pad.draw(); joystick_values = virtual_pad.get_joystick_values()
GetJoystickValues ==
    /\ pc = "get_joystick_values"
    /\ joystick_values' = get_joystick_values(virtual_pad)
    /\ pc' = "btn_a"
    /\ UNCHANGED <<virtual_pad, event_queue, robot_cmd, sent, exception, calls,
                   event, hist>>

\* The call robot_conn.data_channel.send(cmd) of the branch at position at,
\* which returns; the loop goes on at position next.
SendReturns(at, next, cmd) ==
    /\ pc = at
    /\ robot_cmd' = cmd
    /\ sent' = Append(sent, cmd)
    /\ pc' = next
    /\ UNCHANGED <<virtual_pad, event_queue, joystick_values, exception, calls,
                   event>>

\* The call raising, the exception swallowed and the send tried again.
SendRaises_Retry(at, cmd) ==
    /\ pc = at
    /\ robot_cmd' = cmd
    /\ sent' = Append(sent, cmd)
    /\ pc' = at
    /\ exception' = "send"
    /\ UNCHANGED <<virtual_pad, event_queue, joystick_values, calls, event>>

\* The same call raising: the exception leaves the loop and the coroutine.
SendRaises(at, cmd) ==
    /\ pc = at
    /\ robot_cmd' = cmd
    /\ sent' = Append(sent, cmd)
    /\ pc' = "finally_quit"
    /\ exception' = "send"
    /\ UNCHANGED <<virtual_pad, event_queue, joystick_values, calls, event>>

\* A branch of the loop whose condition is false.
Skip(at, next) ==
    /\ pc = at
    /\ pc' = next
    /\ UNCHANGED <<virtual_pad, event_queue, joystick_values, robot_cmd, sent,
                   exception, calls, event, hist>>

\* if joy_btn_a_is_pressed == 1: send(gen_command(ROBOT_CMD["StandUp"]))
BtnASkip == joystick_values.a # 1 /\ Skip("btn_a", "btn_b")
BtnASend ==
    /\ joystick_values.a = 1
    /\ SendReturns("btn_a", "btn_b", gen_command("StandUp"))
    /\ hist' = HistSent(hist, "btn_a")
BtnARaises ==
    /\ joystick_values.a = 1
    /\ SendRaises("btn_a", gen_command("StandUp"))
    /\ hist' = HistSent(hist, "btn_a")

\* if joy_btn_b_is_pressed == 1: send(gen_command(ROBOT_CMD["StandDown"]))
BtnBSkip == joystick_values.b # 1 /\ Skip("btn_b", "btn_x")
BtnBSend ==
    /\ joystick_values.b = 1
    /\ SendReturns("btn_b", "btn_x", gen_command("StandDown"))
    /\ hist' = HistSent(hist, "btn_b")
BtnBRaises ==
    /\ joystick_values.b = 1
    /\ SendRaises("btn_b", gen_command("StandDown"))
    /\ hist' = HistSent(hist, "btn_b")

\* if joy_btn_x_is_pressed == 1: send(gen_command(ROBOT_CMD["StopMove"]))
BtnXSkip == joystick_values.x # 1 /\ Skip("btn_x", "btn_y")
BtnXSend ==
    /\ joystick_values.x = 1
    /\ SendReturns("btn_x", "btn_y", gen_command("StopMove"))
    /\ hist' = HistSent(hist, "btn_x")
BtnXRaises ==
    /\ joystick_values.x = 1
    /\ SendRaises("btn_x", gen_command("StopMove"))
    /\ hist' = HistSent(hist, "btn_x")

\* if joy_btn_y_is_pressed == 1: robot_cmd = gen_command(ROBOT_CMD["Hello"]),
\* and the send is commented out
BtnYSkip == joystick_values.y # 1 /\ Skip("btn_y", "move")
BtnYBuild ==
    /\ pc = "btn_y"
    /\ joystick_values.y = 1
    /\ robot_cmd' = gen_command("Hello")
    /\ pc' = "move"
    /\ UNCHANGED <<virtual_pad, event_queue, joystick_values, sent, exception,
                   calls, event, hist>>

\* the ROBOT_CMD key of the command built in each button's branch
ButtonCommand(b) ==
    CASE b = "btn_a" -> "StandUp"
      [] b = "btn_b" -> "StandDown"
      [] b = "btn_x" -> "StopMove"
      [] b = "btn_y" -> "Hello"

MoveCmd(values) ==
    gen_mov_command(joy_move_x(values), joy_move_y(values), joy_move_z(values))

\* if abs(joy_move_x) > 0.0 or ...: send(gen_mov_command(...))
MoveSkip == ~ShouldMove(joystick_values) /\ Skip("move", "sleep")
MoveSend ==
    /\ ShouldMove(joystick_values)
    /\ SendReturns("move", "sleep", MoveCmd(joystick_values))
    /\ UNCHANGED hist
MoveRaises ==
    /\ ShouldMove(joystick_values)
    /\ SendRaises("move", MoveCmd(joystick_values))
    /\ UNCHANGED hist

\* virtual_pad.clock.tick(60); await asyncio.sleep(0.016)
Sleep ==
    /\ pc = "sleep"
    /\ pc' = "handle_events"
    /\ UNCHANGED <<virtual_pad, event_queue, joystick_values, robot_cmd, sent,
                   exception, calls, event, hist>>

\* finally: virtual_pad.quit()
FinallyQuit ==
    /\ pc = "finally_quit"
    /\ calls' = Append(calls, "virtual_pad.quit")
    /\ pc' = "finally_close"
    /\ UNCHANGED <<virtual_pad, event_queue, joystick_values, robot_cmd, sent,
                   exception, event, hist>>

\* finally: await conn.pc.close()
FinallyClose ==
    /\ pc = "finally_close"
    /\ calls' = Append(calls, "conn.pc.close")
    /\ pc' = "done"
    /\ UNCHANGED <<virtual_pad, event_queue, joystick_values, robot_cmd, sent,
                   exception, event, hist>>

Next ==
    \/ PostEvent
    \/ ConnectOk
    \/ ConnectRaises
    \/ HandleEvents
    \/ GetJoystickValues
    \/ BtnASkip
    \/ BtnASend
    \/ BtnARaises
    \/ BtnBSkip
    \/ BtnBSend
    \/ BtnBRaises
    \/ BtnXSkip
    \/ BtnXSend
    \/ BtnXRaises
    \/ BtnYSkip
    \/ BtnYBuild
    \/ MoveSkip
    \/ MoveSend
    \/ MoveRaises
    \/ Sleep
    \/ FinallyQuit
    \/ FinallyClose

Spec == Init /\ [][Next]_vars

\* main's finally block runs once the bridge coroutine has returned or raised,
\* and each of its two calls returns.
FairSpec == Spec /\ WF_vars(FinallyQuit) /\ WF_vars(FinallyClose)

(***************************************************************************)
(* The gamepad alone, under every sequence of mouse events: one step is    *)
(* one pass of the for loop of handle_events.                              *)
(***************************************************************************)
PadEvent ==
    /\ \E e \in PadEvents :
        /\ event' = e
        /\ virtual_pad' = DispatchEvent(virtual_pad, e)
        /\ hist' = HistEvent(hist, e)
    /\ UNCHANGED bridge_vars

PadNext == PadEvent

PadSpec == Init /\ [][PadNext]_vars

(***************************************************************************)
(* The gamepad under the event sequences a single mouse gives: left press  *)
(* and left release alternate, starting with a press.                      *)
(***************************************************************************)
Alternates(h, e) ==
    /\ (e.type = "MOUSEBUTTONDOWN" /\ e.button = 1) => ~h.left_down
    /\ (e.type = "MOUSEBUTTONUP" /\ e.button = 1) => h.left_down

AltPadEvent ==
    /\ \E e \in PadEvents :
        /\ Alternates(hist, e)
        /\ event' = e
        /\ virtual_pad' = DispatchEvent(virtual_pad, e)
        /\ hist' = HistEvent(hist, e)
    /\ UNCHANGED bridge_vars

AltPadNext == AltPadEvent

AltPadSpec == Init /\ [][AltPadNext]_vars

(***************************************************************************)
(* Properties of the gamepad (PadSpec)                                     *)
(***************************************************************************)
Sq(n) == n * n

\* |v| <= 1
AbsAtMostOne(v) == v.rad2 > 0 /\ Sq(v.num) <= v.rad2

\* the length of (vx, vy) is at most 1, for two values over the same root
LengthAtMostOne(vx, vy) ==
    /\ vx.rad2 = vy.rad2
    /\ Sq(vx.num) + Sq(vy.num) <= vx.rad2

\* C1: after any sequence of mouse events, at any pointer positions, each
\* stick's value_x and value_y lie in [-1, 1] and the vector (value_x,
\* value_y) has length at most 1.
C1_ValuesInUnitDisc ==
    \A s \in StickNames :
        /\ AbsAtMostOne(virtual_pad[s].value_x)
        /\ AbsAtMostOne(virtual_pad[s].value_y)
        /\ LengthAtMostOne(virtual_pad[s].value_x, virtual_pad[s].value_y)

\* A dragged stick has handled a motion at a pointer outside the window, far
\* outside its circle, and holds a vector of length exactly 1.
C1_Witness ==
    /\ event = MouseMotion(PFar)
    /\ \E s \in StickNames :
        /\ virtual_pad[s].is_dragging
        /\ Sq(virtual_pad[s].value_x.num) + Sq(virtual_pad[s].value_y.num)
               = virtual_pad[s].value_x.rad2
        /\ virtual_pad[s].value_x.rad2 > Sq(JOYSTICK_RADIUS)

\* C2: a button's is_pressed is true exactly when a left press at distance
\* <= radius from its centre has been handled since the most recent left
\* release (or since the start): a left press outside never sets it and a
\* left release anywhere clears it.
C2_PressedIffHeld ==
    \A b \in ButtonNames : virtual_pad[b].is_pressed <=> hist.held[b]

\* A left press on the rim of A, inside B, has set both and no other button.
C2_Witness ==
    /\ event = MouseDown(1, PAB)
    /\ virtual_pad.btn_a.is_pressed
    /\ virtual_pad.btn_b.is_pressed
    /\ ~virtual_pad.btn_x.is_pressed
    /\ ~virtual_pad.btn_y.is_pressed

\* the value the claim gives for a motion at p of a stick centred at (cx, cy)
MotionValue(p, cx, cy, radius) ==
    LET dx == p[1] - cx
        dy == p[2] - cy
        d2 == Sq(dx) + Sq(dy)
    IN  IF d2 <= Sq(radius)
        THEN [x |-> [num |-> dx, rad2 |-> Sq(radius)],
              y |-> [num |-> dy, rad2 |-> Sq(radius)]]
        ELSE [x |-> [num |-> dx, rad2 |-> d2],
              y |-> [num |-> dy, rad2 |-> d2]]

\* C8: a motion at p handled by a dragging stick leaves the value
\* (dx, dy) / radius when d <= radius and (dx, dy) / d when d > radius, with
\* (dx, dy) = p - centre and d its length, whatever drag_start and the value
\* before were.
C8_MotionSetsValueFromCentre ==
    \A s \in StickNames :
        (event.type = "MOUSEMOTION" /\ virtual_pad[s].is_dragging) =>
            LET v == MotionValue(event.pos, virtual_pad[s].x, virtual_pad[s].y,
                                 virtual_pad[s].radius)
            IN  /\ virtual_pad[s].value_x = v.x
                /\ virtual_pad[s].value_y = v.y

\* A stick whose drag started at one point has handled a motion at another
\* point, outside its circle.
C8_Witness ==
    /\ event.type = "MOUSEMOTION"
    /\ \E s \in StickNames :
        /\ virtual_pad[s].is_dragging
        /\ virtual_pad[s].drag_start # event.pos
        /\ ~InCircle(event.pos, virtual_pad[s].x, virtual_pad[s].y,
                     virtual_pad[s].radius)
        /\ NonZero(virtual_pad[s].value_x)

(***************************************************************************)
(* Properties of the bridge (Spec)                                         *)
(***************************************************************************)
HasPayload(cmd) == \E i \in 1..Len(sent) : sent[i] = cmd

IsMove(cmd) == cmd.builder = "gen_mov_command"

HasMove == \E i \in 1..Len(sent) : IsMove(sent[i])

\* the positions of a tick behind the branch of button b
PositionsAfter(b) ==
    CASE b = "btn_a" -> {"btn_b", "btn_x", "btn_y", "move", "sleep"}
      [] b = "btn_b" -> {"btn_x", "btn_y", "move", "sleep"}
      [] b = "btn_x" -> {"btn_y", "move", "sleep"}
      [] b = "btn_y" -> {"move", "sleep"}

SentButtons == {"btn_a", "btn_b", "btn_x"}

\* C3 as stated: at the end of a tick, the command of each of the four
\* buttons that was pressed when the state was read has been handed to send.
C3_AllFourForwarded ==
    pc = "sleep" =>
        \A b \in ButtonNames :
            virtual_pad[b].is_pressed => HasPayload(gen_command(ButtonCommand(b)))

\* C3 amended: for A, B and X, once the tick is past the button's branch (no
\* earlier send of the tick raised), the command of a pressed button has been
\* handed to send; the Hello payload of Y is built and never handed to send.
C3_ABXForwarded ==
    /\ \A b \in SentButtons :
        (pc \in PositionsAfter(b) /\ virtual_pad[b].is_pressed) =>
            HasPayload(gen_command(ButtonCommand(b)))
    /\ (pc = "move" /\ virtual_pad.btn_y.is_pressed) =>
            robot_cmd = gen_command("Hello")
    /\ ~HasPayload(gen_command("Hello"))

\* A tick has ended with all four buttons pressed and three commands sent.
C3_Witness ==
    /\ pc = "sleep"
    /\ \A b \in ButtonNames : virtual_pad[b].is_pressed
    /\ \A b \in SentButtons : HasPayload(gen_command(ButtonCommand(b)))

\* C4 as stated: at the end of a tick, a movement command has been sent
\* exactly when one of the four components read is non-zero.
C4_MoveIffAnyOfFour ==
    pc = "sleep" =>
        (HasMove <=> \/ NonZero(joystick_values.Axis0)
                     \/ NonZero(joystick_values.Axis1)
                     \/ NonZero(joystick_values.Axis2)
                     \/ NonZero(joystick_values.Axis3))

AnyOfThree ==
    \/ NonZero(joystick_values.Axis0)
    \/ NonZero(joystick_values.Axis1)
    \/ NonZero(joystick_values.Axis2)

\* C4 amended: a tick that reaches its end (no send of it raised) has sent a
\* movement command exactly when left x, left y or right x read non-zero;
\* right y takes no part, and no movement command is ever sent with all
\* three at zero.
C4_MoveIffAnyOfThree ==
    /\ pc = "sleep" => (HasMove <=> AnyOfThree)
    /\ HasMove => AnyOfThree

\* A tick has ended without a movement command while the right stick's y
\* was non-zero.
C4_Witness ==
    /\ pc = "sleep"
    /\ NonZero(joystick_values.Axis3)
    /\ ~HasMove

\* x = JOY_SENSE * v
IsJoySenseTimes(x, v) ==
    /\ x.num = JOY_SENSE_NUM * v.num
    /\ x.rad2 = Sq(JOY_SENSE_DEN) * v.rad2

\* |x| <= JOY_SENSE
AbsAtMostJoySense(x) ==
    x.rad2 > 0 /\ Sq(JOY_SENSE_DEN) * Sq(x.num) <= Sq(JOY_SENSE_NUM) * x.rad2

\* C9: every movement payload sent in a tick carries x = JOY_SENSE * left
\* value_y, y = JOY_SENSE * left value_x and z = right value_x of the state
\* read in the tick, so |x| <= 0.2, |y| <= 0.2 and |z| <= 1.
C9_MovePayload ==
    \A i \in 1..Len(sent) :
        IsMove(sent[i]) =>
            LET m == sent[i].parameter
            IN  /\ sent[i].api_id = MOVE_API_ID
                /\ IsJoySenseTimes(m.x, virtual_pad.left_stick.value_y)
                /\ IsJoySenseTimes(m.y, virtual_pad.left_stick.value_x)
                /\ m.z = virtual_pad.right_stick.value_x
                /\ AbsAtMostJoySense(m.x)
                /\ AbsAtMostJoySense(m.y)
                /\ AbsAtMostOne(m.z)

\* A movement payload with three non-zero components, x and y different,
\* has been sent.
C9_Witness ==
    \E i \in 1..Len(sent) :
        /\ IsMove(sent[i])
        /\ NonZero(sent[i].parameter.x)
        /\ NonZero(sent[i].parameter.y)
        /\ NonZero(sent[i].parameter.z)
        /\ sent[i].parameter.x # sent[i].parameter.y

\* the events of a batch up to its first QUIT are handled, the rest dropped
HasQuit(batch) == \E i \in 1..Len(batch) : batch[i].type = "QUIT"

NumHandled(batch) ==
    IF HasQuit(batch)
    THEN (CHOOSE i \in 1..Len(batch) :
            /\ batch[i].type = "QUIT"
            /\ \A j \in 1..(i - 1) : batch[j].type # "QUIT") - 1
    ELSE Len(batch)

\* the pad after the first n events of batch, each applied to all six widgets
RECURSIVE ApplyPrefix(_, _, _)
ApplyPrefix(pad, batch, n) ==
    IF n = 0
    THEN pad
    ELSE DispatchEvent(ApplyPrefix(pad, batch, n - 1), batch[n])

\* what a tick that read values hands to send before it reaches position at
SendsBefore(at, values) ==
    (IF at \in PositionsAfter("btn_a") /\ values.a = 1
     THEN <<gen_command("StandUp")>> ELSE <<>>)
    \o (IF at \in PositionsAfter("btn_b") /\ values.b = 1
        THEN <<gen_command("StandDown")>> ELSE <<>>)
    \o (IF at \in PositionsAfter("btn_x") /\ values.x = 1
        THEN <<gen_command("StopMove")>> ELSE <<>>)
    \o (IF at = "sleep" /\ (NonZero(values.Axis1) \/ NonZero(values.Axis0)
                             \/ NonZero(values.Axis2))
        THEN <<[builder |-> "gen_mov_command", api_id |-> MOVE_API_ID,
                parameter |-> [x |-> TimesJoySense(values.Axis1),
                               y |-> TimesJoySense(values.Axis0),
                               z |-> values.Axis2]]>>
        ELSE <<>>)

TickPositions == {"btn_a", "btn_b", "btn_x", "btn_y", "move", "sleep"}

IsPrefix(s, t) == Len(s) <= Len(t) /\ \A i \in 1..Len(s) : s[i] = t[i]

\* the state a tick reads: the fields of the pad as they are now
PadValues ==
    [Axis0 |-> virtual_pad.left_stick.value_x,
     Axis1 |-> virtual_pad.left_stick.value_y,
     Axis2 |-> virtual_pad.right_stick.value_x,
     Axis3 |-> virtual_pad.right_stick.value_y,
     a |-> IF virtual_pad.btn_a.is_pressed THEN 1 ELSE 0,
     b |-> IF virtual_pad.btn_b.is_pressed THEN 1 ELSE 0,
     x |-> IF virtual_pad.btn_x.is_pressed THEN 1 ELSE 0,
     y |-> IF virtual_pad.btn_y.is_pressed THEN 1 ELSE 0]

\* Between the read and the end of the tick the values read are those of the
\* pad, and the payloads sent so far are those these values give.
C5_SentFromStateRead ==
    /\ pc \in TickPositions =>
        /\ joystick_values = PadValues
        /\ sent = SendsBefore(pc, PadValues)
    /\ exception = "send" => IsPrefix(sent, SendsBefore("sleep", PadValues))

\* A poll without QUIT applies its whole batch, in order, and empties the
\* queue; the read follows it and changes no widget; no other step changes a
\* widget, whatever is posted meanwhile.
C5_Step ==
    /\ (pc = "handle_events" /\ pc' # pc /\ ~HasQuit(event_queue)) =>
        /\ virtual_pad' = ApplyPrefix(virtual_pad, event_queue, Len(event_queue))
        /\ event_queue' = <<>>
        /\ pc' = "get_joystick_values"
    /\ pc # "handle_events" => virtual_pad' = virtual_pad
    /\ pc = "get_joystick_values" => pc' \in {pc, "btn_a"}

\* C5: every tick polls, applies the whole polled batch, reads the state,
\* builds and sends: every payload sent in the tick is computed from the
\* state after the batch, and no event is applied between the read and the
\* last send of the tick.
C5_TickOrder == []C5_SentFromStateRead /\ [][C5_Step]_vars

\* A tick has sent StandUp and a movement command while a release and a
\* motion wait in the queue, not applied.
C5_Witness ==
    /\ pc = "sleep"
    /\ Len(sent) >= 2
    /\ Len(event_queue) = MaxQueue
    /\ event_queue[1].type = "MOUSEBUTTONUP"
    /\ virtual_pad.btn_a.is_pressed
    /\ virtual_pad.left_stick.is_dragging

\* C6 as stated: every left press inside A, B or X that is followed by a
\* release has had the button's command sent: no poll handles a left release
\* while a press inside one of these buttons still awaits its command.
C6_EveryClickForwarded ==
    [][(pc = "handle_events" /\ pc' # pc) =>
            Lost(hist, event_queue) \cap SentButtons = {}]_vars

AllDistinct(s) == \A i, j \in 1..Len(s) : i # j => s[i] # s[j]

NumMoves == Cardinality({i \in 1..Len(sent) : IsMove(sent[i])})

CleanupCalls == <<"virtual_pad.quit", "conn.pc.close">>

\* main's finally block: quit() first, then close(), each once
CleanupInOrder ==
    /\ pc = "finally_quit" => calls = <<>>
    /\ pc = "finally_close" => calls = <<"virtual_pad.quit">>
    /\ pc = "done" => calls = CleanupCalls
    /\ pc \notin {"finally_quit", "finally_close", "done"} => calls = <<>>

C7_AtMostOnce ==
    /\ AllDistinct(sent)
    /\ NumMoves <= 1
    /\ exception = "send" =>
        /\ pc \in {"finally_quit", "finally_close", "done"}
        /\ sent # <<>>
        /\ robot_cmd = sent[Len(sent)]
    /\ CleanupInOrder

\* after a send has raised nothing more is handed to send, and the only
\* steps of main are the two calls of the finally block
C7_Step ==
    exception = "send" =>
        /\ sent' = sent
        /\ exception' = "send"
        /\ pc' # pc => Len(calls') = Len(calls) + 1

\* C7: within a tick each payload is handed to send at most once; when a
\* send raises, the payload is not sent again, the loop sends nothing more,
\* and main calls virtual_pad.quit() and then conn.pc.close().
C7_BestEffortSend ==
    /\ []C7_AtMostOnce
    /\ [][C7_Step]_vars
    /\ (exception = "send") ~> (pc = "done" /\ calls = CleanupCalls)

\* The second send of a tick raised and main has finished its cleanup.
C7_Witness ==
    /\ exception = "send"
    /\ pc = "done"
    /\ Len(sent) >= 2
    /\ calls = CleanupCalls

\* a poll whose batch holds QUIT applies the events before the first QUIT,
\* drops the rest and leaves the loop with nothing sent in the tick
C10_Step ==
    (pc = "handle_events" /\ pc' # pc /\ HasQuit(event_queue)) =>
        /\ pc' = "finally_quit"
        /\ virtual_pad' =
              ApplyPrefix(virtual_pad, event_queue, NumHandled(event_queue))
        /\ event_queue' = <<>>
        /\ sent' = <<>>
        /\ exception' = "none"

C10_NothingSent ==
    /\ (exception = "none" /\ pc \in {"finally_quit", "finally_close", "done"})
          => sent = <<>>
    /\ CleanupInOrder

\* C10: a polled batch with a QUIT event ends the loop in that tick with no
\* command sent, even when earlier events of the batch pressed a button or
\* moved a stick; events behind the QUIT are not applied; main then calls
\* virtual_pad.quit() and conn.pc.close().
C10_QuitEndsLoop ==
    /\ []C10_NothingSent
    /\ [][C10_Step]_vars
    /\ (exception = "none" /\ pc = "finally_quit")
          ~> (pc = "done" /\ calls = CleanupCalls /\ sent = <<>>)

\* The loop has ended on QUIT with a button pressed and a stick deflected,
\* nothing sent in that tick, and main has finished its cleanup.
C10_Witness ==
    /\ exception = "none"
    /\ pc = "done"
    /\ virtual_pad.btn_a.is_pressed
    /\ NonZero(virtual_pad.left_stick.value_x)
    /\ sent = <<>>
    /\ calls = CleanupCalls

(***************************************************************************)
(* Further properties of the gamepad                                       *)
(***************************************************************************)
Centred(stick) == stick.value_x = Zero /\ stick.value_y = Zero

\* C11: a stick that is not being dragged is centred, is_dragging = FALSE
\* implies (value_x, value_y) = (0, 0); so with no stick dragged, after the
\* left release, the movement condition of the loop is false on the values
\* the pad gives.
C11_NotDraggingIsCentred ==
    /\ \A s \in StickNames :
        ~virtual_pad[s].is_dragging => Centred(virtual_pad[s])
    /\ (\A s \in StickNames : ~virtual_pad[s].is_dragging) =>
        ~ShouldMove(PadValues)

\* A left release has just been handled after both sticks had been dragged:
\* neither is dragging and both are centred.
C11_Witness ==
    /\ event.type = "MOUSEBUTTONUP"
    /\ event.button = 1
    /\ virtual_pad.left_stick.drag_start = PL
    /\ virtual_pad.right_stick.drag_start = PR
    /\ \A s \in StickNames :
        ~virtual_pad[s].is_dragging /\ Centred(virtual_pad[s])

PressedButtons(pad) == {b \in ButtonNames : pad[b].is_pressed}

\* C12 as stated: the four hit regions are pairwise disjoint, so with all
\* buttons released the handling of one left press sets is_pressed on at
\* most one button.
C12_OneClickOneButton ==
    [][(PressedButtons(virtual_pad) = {}
            /\ event'.type = "MOUSEBUTTONDOWN" /\ event'.button = 1)
          => Cardinality(PressedButtons(virtual_pad')) <= 1]_vars

(***************************************************************************)
(* Connection                                                              *)
(***************************************************************************)
\* nothing is sent and no event is handled while connect_robot() has not
\* returned, nor ever when it raised; main's cleanup keeps its order
C13_NothingBeforeConnect ==
    /\ (pc = "connect_robot" \/ exception = "connect_robot") =>
        /\ sent = <<>>
        /\ robot_cmd = NoCmd
        /\ virtual_pad = VirtualGamepad
    /\ exception = "connect_robot" =>
        pc \in {"finally_quit", "finally_close", "done"}
    /\ CleanupInOrder

\* before the connection stands, and after it failed, no step polls the
\* queue or sends; after the failure the only steps are the two cleanup calls
C13_Step ==
    /\ (pc = "connect_robot" \/ exception = "connect_robot") =>
        /\ IsPrefix(event_queue, event_queue')
        /\ sent' = <<>>
    /\ exception = "connect_robot" =>
        /\ exception' = "connect_robot"
        /\ event_queue' = event_queue
        /\ pc' # pc => Len(calls') = Len(calls) + 1

\* C13: no payload is handed to send before connect_robot() has completed;
\* if connect_robot raises, no event is polled, no payload is ever sent, and
\* main calls virtual_pad.quit() and then conn.pc.close().
C13_ConnectFirst ==
    /\ []C13_NothingBeforeConnect
    /\ [][C13_Step]_vars
    /\ (exception = "connect_robot") ~> (pc = "done" /\ calls = CleanupCalls)

\* connect_robot() raised with a full queue of posted events, none of which
\* was polled, and main has finished its cleanup.
C13_Witness ==
    /\ exception = "connect_robot"
    /\ pc = "done"
    /\ Len(event_queue) = MaxQueue
    /\ sent = <<>>
    /\ calls = CleanupCalls

(***************************************************************************)
(* Properties of the gamepad under alternating press and release           *)
(* (AltPadSpec)                                                            *)
(***************************************************************************)
Dragging == {s \in StickNames : virtual_pad[s].is_dragging}

Deflected == {s \in StickNames : ~Centred(virtual_pad[s])}

C14_AtMostOneDragging ==
    /\ Cardinality(Dragging) <= 1
    /\ Cardinality(Deflected) <= 1

\* a stick starts to drag only in the handling of a left press inside it
C14_Step ==
    \A s \in StickNames :
        (~virtual_pad[s].is_dragging /\ virtual_pad'[s].is_dragging) =>
            /\ event'.type = "MOUSEBUTTONDOWN"
            /\ event'.button = 1
            /\ InCircle(event'.pos, virtual_pad[s].x, virtual_pad[s].y,
                        JOYSTICK_RADIUS)

\* C14: when left presses and left releases alternate, starting with a
\* press, at most one stick is dragging at any time and so at most one has a
\* non-zero value; a drag starts only on a left press at distance <= radius
\* from the stick's centre.
C14_OneStickAtATime == []C14_AtMostOneDragging /\ [][C14_Step]_vars

\* After a drag of the left stick and its release, the right stick is
\* dragged and deflected; the left one is centred.
C14_Witness ==
    /\ virtual_pad.left_stick.drag_start # NoDrag
    /\ ~virtual_pad.left_stick.is_dragging
    /\ virtual_pad.right_stick.is_dragging
    /\ Deflected = {"right_stick"}

(***************************************************************************)
(* Frame conditions (PadSpec)                                              *)
(***************************************************************************)
SameValue(s) ==
    /\ virtual_pad'[s].value_x = virtual_pad[s].value_x
    /\ virtual_pad'[s].value_y = virtual_pad[s].value_y

\* the step that handles event' leaves what the event does not concern
C15_Step ==
    /\ (event'.type \in {"MOUSEBUTTONDOWN", "MOUSEBUTTONUP"}
            /\ event'.button # 1) =>
        virtual_pad' = virtual_pad
    /\ event'.type = "MOUSEBUTTONDOWN" =>
        \A s \in StickNames : SameValue(s)
    /\ event'.type = "MOUSEMOTION" =>
        /\ \A s \in StickNames :
            /\ virtual_pad'[s].is_dragging = virtual_pad[s].is_dragging
            /\ virtual_pad'[s].drag_start = virtual_pad[s].drag_start
            /\ ~virtual_pad[s].is_dragging => SameValue(s)
        /\ \A b \in ButtonNames :
            virtual_pad'[b].is_pressed = virtual_pad[b].is_pressed

\* C15: a press or release of a button other than the left one changes no
\* stick and no button; a press never changes a stick's value; a motion
\* never changes is_dragging or is_pressed and changes the value of a stick
\* only if that stick is dragging.
C15_FrameEffects == [][C15_Step]_vars

\* A right-button press inside the left stick has just been handled: the
\* left stick does not drag, the right stick keeps its drag and its value,
\* and B stays pressed.
C15_Witness ==
    /\ event = MouseDown(3, PL)
    /\ ~virtual_pad.left_stick.is_dragging
    /\ virtual_pad.right_stick.is_dragging
    /\ ~Centred(virtual_pad.right_stick)
    /\ virtual_pad.btn_b.is_pressed
    /\ ~virtual_pad.btn_a.is_pressed

====
